---- MODULE Spec2Model ----
(***************************************************************************)
(* burqdb: the slotted page (src/lib/storage/slotted_page.rs) and the cell *)
(* it stores (src/lib/storage/cell.rs).                                    *)
(*                                                                         *)
(* A page is the fields of SlottedPage: header (offset, page_size),        *)
(* offsets (the slot directory), cells (offset -> Cell), freeblocks (the   *)
(* list can_insert scans) and free_list (the list remove pushes to and     *)
(* the Occupied arm of insert pops from).  The source names both lists;    *)
(* they are kept apart here exactly as the source keeps them apart.        *)
(*                                                                         *)
(* All header arithmetic is u16.  A build with overflow checks panics on   *)
(* overflow, a build without them wraps modulo 2^16; which one runs is     *)
(* fixed at Init and both are explored.                                    *)
(***************************************************************************)
EXTENDS Integers, Sequences, FiniteSets, TLC

\* static PAGE_SIZE: u16 = 4095
PAGE_SIZE == 4095

\* size_of::<PageHeader<K, V>>(): u64 + Option<Box<_>> + 3 * u16 + a one-byte
\* enum, rounded up to the 8-byte alignment.
HeaderSize == 24

\* u16 arithmetic is modulo 2^16.
U16 == 65536

\* Keys are the i32 values 1..MaxKey.
MaxKey == 2

\* Inserts are explored while the page has taken fewer than MaxCells cells:
\* those in the directory and those whose size remove pushed to free_list.
MaxCells == 4

Keys == 1..MaxKey

\* A value is a String, given by its length in bytes.  The lengths make the
\* encoded cells 3, 27, 4067 and 65503 bytes long: small cells, the cell that
\* exactly fits the tail of a fresh page, and a cell larger than a page.
Values == {1, 25, 4063, 65499}

VARIABLES
    header,          \* [offset, page_size]: PageHeader.offset, PageHeader.page_size
    offsets,         \* SlottedPage.offsets: Vec<usize>
    cells,           \* SlottedPage.cells: HashMap<u16, Cell>
    freeblocks,      \* SlottedPage.freeblocks: Vec<FreeBlock>
    free_list,       \* self.free_list: Vec<usize>
    overflow_checks, \* TRUE: arithmetic overflow panics; FALSE: it wraps
    status,          \* "ok" | "panicked"
    res,             \* the last call and what it returned
    step,            \* position in the reclaim-and-reuse script (0 outside it)
    disk,            \* the directories: file path -> inode, for the files present
    content,         \* inode -> the file's bytes, as runs of equal bytes
    handles,         \* the open files (Rc<RefCell<File>>): [inode, cursor] each
    files,           \* FileManager.files: HashMap<String, Rc<RefCell<File>>>
    opened,          \* the successful FileManager::open calls: [path, name, handle]
    written,         \* page_id -> the data of the last successful write_page
    fres             \* the last call on the file layer and what it returned

pageVars == <<header, offsets, cells, freeblocks, free_list>>

fileVars == <<disk, content, handles, files, opened, written, fres>>

vars == <<header, offsets, cells, freeblocks, free_list, overflow_checks, status, res, step,
          disk, content, handles, files, opened, written, fres>>

----------------------------------------------------------------------------
(* u16 arithmetic *)

\* The value leaves the range of u16.
Ovf(x) == x < 0 \/ x >= U16

\* The value a build without overflow checks keeps; also the `as u16` cast.
Wrap(x) == x % U16

----------------------------------------------------------------------------
(* Cell *)

\* bincode's standard() integer width: one byte below 251, else a marker
\* byte and 2 bytes below 2^16, or 4 bytes (lengths stay below 2^31 here).
VarintLen(n) ==
    IF n < 251 THEN 1
    ELSE IF n < 65536 THEN 3
    ELSE 5

\* bincode's standard() maps a signed integer to an unsigned one first.
ZigZag(k) == IF k >= 0 THEN 2 * k ELSE (-2 * k) - 1

\* Cell::new: the size is not computed yet.
CellNew(key, value) == [key |-> key, value |-> value, cached_size |-> <<>>]

\* Cell::_serialize, by its length: the key's bytes, then the String's length
\* prefix and its bytes.
SerializeLen(cell) == VarintLen(ZigZag(cell.key)) + VarintLen(cell.value) + cell.value

\* Cell::size: the cached size when there is one, else the serialized length.
CellSize(cell) ==
    IF cell.cached_size = <<>> THEN SerializeLen(cell) ELSE cell.cached_size[1]

\* The cell as Cell::size leaves it: the size is cached.
Sized(cell) == [cell EXCEPT !.cached_size = <<CellSize(cell)>>]

----------------------------------------------------------------------------
(* Results *)

Result(op, key, out, cell) == [op |-> op, key |-> key, out |-> out, cell |-> cell]

\* A panic ends the run: the page is not used again.
Panic(op, key) ==
    /\ status' = "panicked"
    /\ res' = Result(op, key, "Panic", <<>>)
    /\ UNCHANGED pageVars

----------------------------------------------------------------------------
(* SlottedPage::new *)

\* No file is present or open and no call on the file layer has been made.
NoFiles ==
    /\ disk = <<>>
    /\ content = <<>>
    /\ handles = <<>>
    /\ files = <<>>
    /\ opened = {}
    /\ written = <<>>
    /\ fres = [op |-> "none"]

\* The page as SlottedPage::new returns it.
NewPage ==
    /\ header = [offset |-> PAGE_SIZE, page_size |-> 0]
    /\ offsets = <<>>
    /\ cells = <<>>
    /\ freeblocks = <<>>
    /\ free_list = <<>>
    /\ status = "ok"
    /\ res = Result("new", 0, "Ok", <<>>)
    /\ step = 0

Init ==
    /\ NewPage
    /\ overflow_checks \in BOOLEAN
    /\ NoFiles

----------------------------------------------------------------------------
(* The cells map and the slot directory *)

\* HashMap::insert: a cell already stored under the offset is replaced.
CellsInsert(cs, o, c) == [x \in (DOMAIN cs) \cup {o} |-> IF x = o THEN c ELSE cs[x]]

\* HashMap::remove.
CellsRemove(cs, o) == [x \in (DOMAIN cs) \ {o} |-> cs[x]]

\* Vec::remove(i), i counted from 1.
SeqRemove(s, i) == SubSeq(s, 1, i - 1) \o SubSeq(s, i + 1, Len(s))

\* The key of the cell a directory entry addresses.
KeyAt(offs, cs, i) == cs[offs[i]].key

\* One step of the stable sort: o goes behind every entry whose key is not
\* greater than its own.
RECURSIVE PlaceByKey(_, _, _)
PlaceByKey(sorted, o, cs) ==
    IF sorted = <<>> THEN <<o>>
    ELSE IF cs[Head(sorted)].key <= cs[o].key
         THEN <<Head(sorted)>> \o PlaceByKey(Tail(sorted), o, cs)
         ELSE <<o>> \o sorted

\* offsets.sort_by(|a, b| key(a).cmp(key(b))): a stable sort by key.
RECURSIVE SortOffsets(_, _)
SortOffsets(offs, cs) ==
    IF offs = <<>> THEN <<>>
    ELSE PlaceByKey(SortOffsets(SubSeq(offs, 1, Len(offs) - 1), cs), offs[Len(offs)], cs)

\* The comparator unwraps the cell of every entry it is handed; with two or
\* more entries every entry is compared at least once.
SortPanics(offs, cs) ==
    Len(offs) >= 2 /\ \E i \in 1..Len(offs) : offs[i] \notin DOMAIN cs

----------------------------------------------------------------------------
(* SlottedPage::can_insert *)

\* The index (from 1) of the first block the cell fits in, 0 when there is none.
FirstFit(blocks, required_bytes) ==
    LET fit == {i \in 1..Len(blocks) : required_bytes <= blocks[i].size}
    IN  IF fit = {} THEN 0 ELSE CHOOSE i \in fit : \A j \in fit : i <= j

\* [kind, val, freeblocks]: Free(required_bytes), Occupied(required_bytes -
\* block.offset), Err, or a panic; freeblocks is the list as the call leaves it.
can_insert(cell) ==
    LET required_bytes == Wrap(CellSize(cell))
        header_side == HeaderSize + (Wrap(Len(offsets)) + 1) * 2
        tail == header.offset - Wrap(header_side)
        need == required_bytes + 2
        index == FirstFit(freeblocks, required_bytes)
        block == freeblocks[index]
        remaining_bytes == block.size - required_bytes
        at == required_bytes - block.offset
    IN  IF overflow_checks /\ (Ovf(header_side) \/ Ovf(tail) \/ Ovf(need))
        THEN [kind |-> "Panic", val |-> 0, freeblocks |-> freeblocks]
        ELSE IF Wrap(tail) >= Wrap(need)
        THEN [kind |-> "Free", val |-> required_bytes, freeblocks |-> freeblocks]
        ELSE IF index = 0
        THEN [kind |-> "Err", val |-> 0, freeblocks |-> freeblocks]
        ELSE IF overflow_checks /\ Ovf(at)
        THEN [kind |-> "Panic", val |-> 0, freeblocks |-> freeblocks]
        ELSE [kind |-> "Occupied", val |-> Wrap(at),
              freeblocks |-> IF remaining_bytes >= 4
                             THEN [freeblocks EXCEPT ![index].size = remaining_bytes]
                             ELSE freeblocks]

----------------------------------------------------------------------------
(* SlottedPage::insert *)

\* The tail of insert, common to both arms: page_size += 1, then the sort.
InsertFinish(key, ps, offs, cs, fl, fb, off) ==
    IF (overflow_checks /\ Ovf(ps + 1)) \/ SortPanics(offs, cs)
    THEN Panic("insert", key)
    ELSE /\ header' = [offset |-> off, page_size |-> Wrap(ps + 1)]
         /\ offsets' = SortOffsets(offs, cs)
         /\ cells' = cs
         /\ free_list' = fl
         /\ freeblocks' = fb
         /\ status' = status
         /\ res' = Result("insert", key, "Ok", <<>>)

\* Position::Free(size): the cell is carved from the tail.
InsertFree(key, cell, size) ==
    LET dec == size + 1
        lowered == header.offset - Wrap(dec)
        offset == Wrap(lowered) + 1
        ps == header.page_size + size
    IN  IF overflow_checks /\ (Ovf(dec) \/ Ovf(lowered) \/ Ovf(offset) \/ Ovf(ps))
        THEN Panic("insert", key)
        ELSE InsertFinish(key, Wrap(ps), Append(offsets, Wrap(offset)),
                          CellsInsert(cells, Wrap(offset), cell),
                          free_list, freeblocks, Wrap(lowered))

\* Position::Occupied(at): the free_list entry equal to at is taken out and the
\* cell is stored under at.
InsertOccupied(key, cell, at, fb) ==
    LET found == {i \in 1..Len(free_list) : free_list[i] = at}
        index == CHOOSE i \in found : \A j \in found : i <= j
        ps == header.page_size + at
    IN  IF found = {} \/ (overflow_checks /\ Ovf(ps))
        THEN Panic("insert", key)
        ELSE InsertFinish(key, Wrap(ps), Append(offsets, at),
                          CellsInsert(cells, at, cell),
                          SeqRemove(free_list, index), fb, header.offset)

\* The error arm falling through to the page_size += 1 behind the match.
InsertBailCounted(key) ==
    /\ res' = Result("insert", key, "PageFull", <<>>)
    /\ header' = [header EXCEPT !.page_size = Wrap(header.page_size + 1)]
    /\ UNCHANGED <<offsets, cells, freeblocks, free_list, status>>

\* Err(_) => bail!("Not enough space to insert the cell")
InsertBail(key) ==
    /\ res' = Result("insert", key, "PageFull", <<>>)
    /\ UNCHANGED <<pageVars, status>>

InsertOp(key, value) ==
    LET cell == Sized(CellNew(key, value))
        pos == can_insert(cell)
    IN  CASE pos.kind = "Panic" -> Panic("insert", key)
          [] pos.kind = "Err" -> InsertBail(key)
          [] pos.kind = "Free" -> InsertFree(key, cell, pos.val)
          [] pos.kind = "Occupied" -> InsertOccupied(key, cell, pos.val, pos.freeblocks)

----------------------------------------------------------------------------
(* SlottedPage::find_key_index *)

\* The loop of find_key_index; left, right and mid are i32.
RECURSIVE FindIndexLoop(_, _, _)
FindIndexLoop(key, left, right) ==
    IF left > right THEN [kind |-> "None", idx |-> 0]
    ELSE LET mid == (left + right) \div 2
         IN  IF offsets[mid + 1] \notin DOMAIN cells
             THEN [kind |-> "Panic", idx |-> 0]
             ELSE IF KeyAt(offsets, cells, mid + 1) = key
             THEN [kind |-> "Some", idx |-> Wrap(mid)]
             ELSE IF KeyAt(offsets, cells, mid + 1) < key
             THEN FindIndexLoop(key, mid + 1, right)
             ELSE FindIndexLoop(key, left, mid - 1)

find_key_index(key) == FindIndexLoop(key, 0, Len(offsets) - 1)

----------------------------------------------------------------------------
(* SlottedPage::find_key *)

\* The loop of find_key; left, right and mid are u16, result is the last cell
\* seen with a smaller key.
RECURSIVE FindKeyLoop(_, _, _, _)
FindKeyLoop(key, left, right, result) ==
    IF left > right THEN result
    ELSE LET sum == left + right
             mid == Wrap(sum) \div 2
             lower == mid - 1
             upper == mid + 1
         IN  IF overflow_checks /\ Ovf(sum)
             THEN [kind |-> "Panic", cell |-> <<>>]
             ELSE IF mid >= Len(offsets) \/ offsets[mid + 1] \notin DOMAIN cells
             THEN [kind |-> "Panic", cell |-> <<>>]
             ELSE IF KeyAt(offsets, cells, mid + 1) = key
             THEN [kind |-> "Some", cell |-> <<cells[offsets[mid + 1]]>>]
             ELSE IF KeyAt(offsets, cells, mid + 1) < key
             THEN IF overflow_checks /\ Ovf(upper)
                  THEN [kind |-> "Panic", cell |-> <<>>]
                  ELSE FindKeyLoop(key, Wrap(upper), right,
                                   [kind |-> "Some", cell |-> <<cells[offsets[mid + 1]]>>])
             ELSE IF overflow_checks /\ Ovf(lower)
                  THEN [kind |-> "Panic", cell |-> <<>>]
                  ELSE FindKeyLoop(key, left, Wrap(lower), result)

find_key(key) ==
    LET right == Wrap(Len(offsets)) - 1
    IN  IF overflow_checks /\ Ovf(right)
        THEN [kind |-> "Panic", cell |-> <<>>]
        ELSE FindKeyLoop(key, 0, Wrap(right), [kind |-> "None", cell |-> <<>>])

FindOp(key) ==
    LET found == find_key(key)
    IN  IF found.kind = "Panic" THEN Panic("find_key", key)
        ELSE /\ res' = Result("find_key", key, found.kind, found.cell)
             /\ UNCHANGED <<pageVars, status>>

----------------------------------------------------------------------------
(* SlottedPage::remove *)

\* None => bail!("No such key found")
RemoveBail(key) ==
    /\ res' = Result("remove", key, "NotFound", <<>>)
    /\ UNCHANGED <<pageVars, status>>

\* Some(index): the entry and its cell are taken out, the cell's size is
\* pushed to free_list and the size counter is lowered by size + 1.
RemoveAt(key, index) ==
    LET offset == offsets[index + 1]
        cell == cells[Wrap(offset)]
        size == CellSize(cell)
        lowered == header.page_size - Wrap(size)
        ps == Wrap(lowered) - 1
    IN  IF overflow_checks /\ (Ovf(lowered) \/ Ovf(ps))
        THEN Panic("remove", key)
        ELSE /\ offsets' = SeqRemove(offsets, index + 1)
             /\ cells' = CellsRemove(cells, Wrap(offset))
             /\ free_list' = Append(free_list, size)
             /\ header' = [header EXCEPT !.page_size = Wrap(ps)]
             /\ res' = Result("remove", key, "Ok", <<>>)
             /\ UNCHANGED <<freeblocks, status>>

RemoveOp(key) ==
    LET found == find_key_index(key)
    IN  CASE found.kind = "Panic" -> Panic("remove", key)
          [] found.kind = "None" -> RemoveBail(key)
          [] found.kind = "Some" -> RemoveAt(key, found.idx)

----------------------------------------------------------------------------
(* Any sequence of calls on one page *)

\* The keys find_key is asked for: every key, one below and one above.
Targets == 0..(MaxKey + 1)

Insert ==
    \E key \in Keys, value \in Values :
        /\ status = "ok"
        /\ step = 0
        /\ Len(offsets) + Len(free_list) < MaxCells
        /\ InsertOp(key, value)
        /\ UNCHANGED <<overflow_checks, step, fileVars>>

Remove ==
    \E key \in Keys :
        /\ status = "ok"
        /\ step = 0
        /\ RemoveOp(key)
        /\ UNCHANGED <<overflow_checks, step, fileVars>>

Next == Insert \/ Remove

Spec == Init /\ [][Next]_vars

----------------------------------------------------------------------------
(* The same calls, with find_key among them *)

Find ==
    \E key \in Targets :
        /\ status = "ok"
        /\ step = 0
        /\ FindOp(key)
        /\ UNCHANGED <<overflow_checks, step, fileVars>>

NextFind == Insert \/ Remove \/ Find

SpecFind == Init /\ [][NextFind]_vars

----------------------------------------------------------------------------
(* The slot directory *)

\* Every directory entry addresses a stored cell.
Addressed == \A i \in 1..Len(offsets) : offsets[i] \in DOMAIN cells

\* The keys of the directory, in directory order.
DirKeys == [i \in 1..Len(offsets) |-> KeyAt(offsets, cells, i)]

\* The keys that have a directory entry.
LiveKeys == {KeyAt(offsets, cells, i) : i \in 1..Len(offsets)}

DistinctOffsets == \A i, j \in 1..Len(offsets) : i < j => offsets[i] # offsets[j]

SortedByKey == \A i, j \in 1..Len(offsets) : i < j => DirKeys[i] <= DirKeys[j]

\* C1: after any sequence of insert and remove calls on a fresh page, the
\* directory holds pairwise distinct offsets, each addressing a cell, and is
\* sorted ascending by the key of the addressed cell.
C1_DistinctSortedDirectory ==
    status = "ok" => Addressed /\ DistinctOffsets /\ SortedByKey

\* C2: no two directory entries address cells with equal keys: for all i < j,
\* key(slot[i]) < key(slot[j]), also after an insert of a key that is live.
C2_NoDuplicateKeys ==
    status = "ok" /\ Addressed =>
        \A i, j \in 1..Len(offsets) : i < j => DirKeys[i] < DirKeys[j]

----------------------------------------------------------------------------
(* Byte ranges and space accounting *)

\* The byte ranges [a, a + m) and [b, b + n) share a byte.
Overlap(a, m, b, n) == a < b + n /\ b < a + m

\* The offsets of the live cells.
LiveOffsets == {offsets[i] : i \in 1..Len(offsets)} \cap DOMAIN cells

\* C3: no two live cells occupy overlapping byte ranges [offset, offset +
\* size), and no live cell's byte range overlaps a free-list block.
C3_NoOverlap ==
    status = "ok" =>
        /\ \A a, b \in LiveOffsets :
               a # b => ~Overlap(a, CellSize(cells[a]), b, CellSize(cells[b]))
        /\ \A a \in LiveOffsets : \A i \in 1..Len(freeblocks) :
               ~Overlap(a, CellSize(cells[a]), freeblocks[i].offset, freeblocks[i].size)

RECURSIVE SumSeq(_)
SumSeq(s) == IF s = <<>> THEN 0 ELSE Head(s) + SumSeq(Tail(s))

\* The encoded sizes of the cells the directory addresses, summed.
LiveBytes == SumSeq([i \in 1..Len(offsets) |-> CellSize(cells[offsets[i]])])

\* The bytes held by both free lists.
FreeBytes == SumSeq(free_list) + SumSeq([i \in 1..Len(freeblocks) |-> freeblocks[i].size])

DirectoryBytes == 2 * Len(offsets)

\* The unallocated bytes between the end of the directory and the free boundary.
Slack == header.offset - (HeaderSize + DirectoryBytes)

\* C4: live-cell bytes + free-list bytes + directory bytes + header bytes +
\* the slack below the free boundary equal the page size after every insert
\* and remove.
C4_SpaceAccounting ==
    status = "ok" /\ Addressed =>
        LiveBytes + FreeBytes + DirectoryBytes + HeaderSize + Slack = PAGE_SIZE

----------------------------------------------------------------------------
(* find_key *)

\* The live keys not above the target.
KeysUpTo(target) == {k \in LiveKeys : k <= target}

Greatest(S) == CHOOSE k \in S : \A other \in S : other <= k

\* C5: find_key returns the cell with the greatest live key <= target, and
\* None when no live key is <= target (the empty page included).
C5_LowerBoundFind ==
    res.op = "find_key" /\ Addressed =>
        IF KeysUpTo(res.key) = {}
        THEN res.out = "None"
        ELSE res.out = "Some" /\ res.cell[1].key = Greatest(KeysUpTo(res.key))

----------------------------------------------------------------------------
(* A failed insert *)

\* C6: an insert that fails with "Not enough space to insert the cell" leaves
\* the directory, the cells, both free lists and the header as they were, so
\* every key find_key found before is found after, with the same cell.
C6_PageFullLeavesPage ==
    [][(res'.op = "insert" /\ res'.out = "PageFull") =>
          /\ UNCHANGED pageVars
          /\ status' = status
          /\ \A key \in Keys :
                 find_key(key).kind = "Some" => (find_key(key))' = find_key(key)]_vars

\* A failed insert into a page that holds two cells, both found by find_key.
C6_Witness ==
    /\ res.op = "insert" /\ res.out = "PageFull"
    /\ Len(offsets) >= 2 /\ Addressed
    /\ \A key \in LiveKeys : find_key(key).kind = "Some"

----------------------------------------------------------------------------
(* The fill loop of test_full_page: insert key0, key1, ... until an error *)

\* The loop is explored for at most MaxFill inserts.
MaxFill == 4

FillInsert ==
    \E value \in Values :
        /\ status = "ok"
        /\ step = 0
        /\ res.out # "PageFull"
        /\ Len(offsets) < MaxFill
        /\ InsertOp(Len(offsets), value)
        /\ UNCHANGED <<overflow_checks, step, fileVars>>

\* The loop runs on until insert returns an error.
SpecFill == Init /\ [][FillInsert]_vars /\ WF_vars(FillInsert)

\* C7: inserting distinct keys with non-empty cells into a fresh page, with
\* no removes, ends with the PageFull error and in no other failure: every
\* insert of the loop returns Ok or PageFull.
C7_FillEndsOnlyInPageFull ==
    res.op = "insert" => res.out \in {"Ok", "PageFull"}

----------------------------------------------------------------------------
(* Reclaim and reuse: insert k1..k5, remove k2 and k4, insert k6 and k7 *)

\* The values of the script: Strings that make cells of 700 and 701 bytes,
\* five of which use up the tail of the page.
ReclaimValues == {696, 697}

\* Steps 1..5: insert(k1) .. insert(k5).
ReclaimFill ==
    \E value \in ReclaimValues :
        /\ status = "ok"
        /\ step < 5
        /\ InsertOp(step + 1, value)
        /\ step' = step + 1
        /\ UNCHANGED <<overflow_checks, fileVars>>

\* Steps 6 and 7: remove(k2), remove(k4).
ReclaimRemove ==
    /\ status = "ok"
    /\ step \in {5, 6}
    /\ RemoveOp(IF step = 5 THEN 2 ELSE 4)
    /\ step' = step + 1
    /\ UNCHANGED <<overflow_checks, fileVars>>

\* Steps 8 and 9: insert(k6), insert(k7), each cell no larger than either
\* cell that was removed.
ReclaimReuse ==
    \E value \in ReclaimValues :
        /\ status = "ok"
        /\ step \in {7, 8}
        /\ \A i \in 1..Len(free_list) : CellSize(CellNew(step - 1, value)) <= free_list[i]
        /\ InsertOp(step - 1, value)
        /\ step' = step + 1
        /\ UNCHANGED <<overflow_checks, fileVars>>

NextReclaim == ReclaimFill \/ ReclaimRemove \/ ReclaimReuse

SpecReclaim == Init /\ [][NextReclaim]_vars

\* C8: the two inserts that follow the removes both succeed, leave the free
\* boundary (header.offset) where it was, and leave every live key findable.
C8_ReclaimAndReuse ==
    [][(step \in {7, 8} /\ step' = step + 1) =>
          /\ res'.out = "Ok"
          /\ header'.offset = header.offset
          /\ \A i \in 1..Len(offsets') :
                 (find_key(KeyAt(offsets, cells, i)))'.kind = "Some"]_vars

----------------------------------------------------------------------------
(* remove *)

\* The keys of the cells the directory addresses.
StoredKeys == {cells[o].key : o \in LiveOffsets}

\* C9: remove(key) of a live key takes out exactly that key's directory
\* entry (the other entries keep their order and stay findable) and adds to
\* the free list one block holding the removed cell's offset and encoded size.
C9_RemoveFreesExactRange ==
    [][(res'.op = "remove" /\ res'.out = "Ok" /\ Addressed) =>
          \E i \in 1..Len(offsets) :
              /\ KeyAt(offsets, cells, i) = res'.key
              /\ offsets' = SeqRemove(offsets, i)
              /\ \A j \in 1..Len(offsets') :
                     (find_key(KeyAt(offsets, cells, j)))'.kind = "Some"
              /\ freeblocks' = Append(freeblocks,
                                      [offset |-> offsets[i],
                                       size |-> CellSize(cells[offsets[i]])])]_vars

\* C10: remove(key) of a key that is not live returns "No such key found"
\* and leaves the directory, the cells, the free lists and the header as
\* they were, in every page state.
C10_RemoveAbsentKey ==
    [][(res'.op = "remove" /\ res'.key \notin StoredKeys) =>
          /\ res'.out = "NotFound"
          /\ UNCHANGED pageVars
          /\ status' = status]_vars

----------------------------------------------------------------------------
(* Where insert puts a cell *)

\* header.offset - header_side of can_insert for one more slot, in unbounded
\* arithmetic: negative where the u16 subtraction would underflow.
TailRoom == header.offset - (HeaderSize + 2 * (Len(offsets) + 1))

\* The tail holds the cell and its slot.
TailFits(n) == TailRoom >= n + 2

\* The cell insert(key, value) stores.
NewCell(key, value) == Sized(CellNew(key, value))

\* C17: when the unallocated tail is at least n + slot cost for a cell of
\* encoded size n, insert succeeds, lowers the free boundary (header.offset)
\* by exactly n, places the cell at the new free boundary, and leaves both
\* free lists unchanged.
C17_TailAllocation ==
    [][\A value \in Values :
          (/\ status = "ok" /\ res'.op = "insert"
           /\ TailFits(CellSize(NewCell(res'.key, value)))
           /\ InsertOp(res'.key, value)) =>
              /\ res'.out = "Ok"
              /\ header'.offset = header.offset - CellSize(NewCell(res'.key, value))
              /\ header'.offset \in DOMAIN cells'
              /\ cells'[header'.offset] = NewCell(res'.key, value)
              /\ free_list' = free_list
              /\ freeblocks' = freeblocks]_vars

\* The sizes of the blocks of both free lists, in list order: the sizes
\* remove pushed, then the blocks can_insert scans.
FreeSizes == free_list \o [i \in 1..Len(freeblocks) |-> freeblocks[i].size]

\* The size of the first free block that holds n bytes, 0 when there is none.
FirstFreeSize(n) ==
    LET fit == {i \in 1..Len(FreeSizes) : FreeSizes[i] >= n}
    IN  IF fit = {} THEN 0 ELSE FreeSizes[CHOOSE i \in fit : \A j \in fit : i <= j]

\* C18: when the tail cannot hold a cell of size n and a free block of size
\* >= n exists, insert succeeds with the first such block: the free boundary
\* is unchanged, the cell gets a directory entry, and the free bytes go down
\* by n when the leftover is 4 bytes or more, else by the whole block.
C18_FreeListAllocation ==
    [][\A value \in Values :
          LET n == CellSize(NewCell(res'.key, value))
              block == FirstFreeSize(n)
          IN  (/\ status = "ok" /\ res'.op = "insert"
               /\ ~TailFits(n) /\ block > 0
               /\ InsertOp(res'.key, value)) =>
                  /\ res'.out = "Ok"
                  /\ header'.offset = header.offset
                  /\ Len(offsets') = Len(offsets) + 1
                  /\ FreeBytes' = FreeBytes - (IF block - n >= 4 THEN n ELSE block)]_vars

\* C19: in every page state reached by inserts and removes, header.offset is
\* at least the header-side size header size + 2 * (slot count + 1), so the
\* u16 subtraction of can_insert does not underflow.
C19_TailNeverUnderflows ==
    status = "ok" => TailRoom >= 0

----------------------------------------------------------------------------
(* Bytes of a file or a buffer: a sequence of runs [n, b], n bytes of value b *)

RECURSIVE ByteLen(_)
ByteLen(bytes) == IF bytes = <<>> THEN 0 ELSE Head(bytes).n + ByteLen(Tail(bytes))

\* The first k bytes.
RECURSIVE Take(_, _)
Take(bytes, k) ==
    IF k <= 0 \/ bytes = <<>> THEN <<>>
    ELSE IF Head(bytes).n <= k
         THEN <<Head(bytes)>> \o Take(Tail(bytes), k - Head(bytes).n)
         ELSE <<[n |-> k, b |-> Head(bytes).b]>>

\* The bytes behind the first k.
RECURSIVE Drop(_, _)
Drop(bytes, k) ==
    IF bytes = <<>> THEN <<>>
    ELSE IF k <= 0 THEN bytes
    ELSE IF Head(bytes).n <= k THEN Drop(Tail(bytes), k - Head(bytes).n)
    ELSE <<[n |-> Head(bytes).n - k, b |-> Head(bytes).b]>> \o Tail(bytes)

\* The same bytes in the fewest runs.
RECURSIVE Norm(_)
Norm(bytes) ==
    IF bytes = <<>> THEN <<>>
    ELSE LET rest == Norm(Tail(bytes))
             run == Head(bytes)
         IN  IF run.n = 0 THEN rest
             ELSE IF rest # <<>> /\ rest[1].b = run.b
                  THEN <<[n |-> run.n + rest[1].n, b |-> run.b]>> \o Tail(rest)
                  ELSE <<run>> \o rest

\* The n bytes at pos, fewer where the file ends before pos + n.
Slice(bytes, pos, n) == Norm(Take(Drop(bytes, pos), n))

\* write_all(data) with the cursor at pos: a gap behind the old end of the
\* file reads as zeros.
WriteAt(bytes, pos, data) ==
    LET gap == pos - ByteLen(bytes)
        padded == IF gap > 0 THEN bytes \o <<[n |-> gap, b |-> 0]>> ELSE bytes
    IN  IF data = <<>> THEN bytes
        ELSE Norm(Take(padded, pos) \o data \o Drop(padded, pos + ByteLen(data)))

----------------------------------------------------------------------------
(* DbFile: page reads and writes through a shared file *)

\* const PageSize: i64 = 4096
PageSize == 4096

\* size_of::<DBHeader>(): one &'static str, a pointer and a length.
DBHeaderSize == 16

\* Pages 0..MaxPage are read and written.
MaxPage == 1

\* page_id: usize, as hi * 2^52 + lo: with hi > 0 the product page_id *
\* PageSize leaves u64.
PageIds == {[hi |-> hi, lo |-> lo] : hi \in {0, 1}, lo \in 0..MaxPage}

\* page_id as u64 * PageSize as u64 overflows.
SeekOverflows(page_id) == page_id.hi > 0

\* size_of::<DBHeader>() as u64 + (page_id as u64 * PageSize as u64), as a
\* build without overflow checks computes it: hi * 2^52 * 4096 is 0 modulo 2^64.
SeekOffset(page_id) == DBHeaderSize + page_id.lo * PageSize

\* The DbFile instances: all on the file handle 1, with and without forced_sync.
dbfiles == <<[file |-> 1, forced_sync |-> FALSE], [file |-> 1, forced_sync |-> TRUE]>>

\* The data buffers of write_page: one byte value repeated; a page, one byte
\* less and one byte more.
DataLens == {PageSize - 1, PageSize, PageSize + 1}

DataBytes == {1, 2}

Buffer(len, b) == <<[n |-> len, b |-> b]>>

\* The panic of an overflowing seek ends the run.
SeekPanic(op, d, page_id) ==
    /\ status' = "panicked"
    /\ fres' = [op |-> op, dbfile |-> d, page_id |-> page_id, out |-> "Panic", frame |-> <<>>]
    /\ UNCHANGED <<disk, content, handles, files, opened, written>>

\* DbFile::read_page: seek, then read_exact of one page into a Frame. A short
\* read leaves the cursor at the end of the file.
read_page(d, page_id) ==
    LET h == dbfiles[d].file
        inode == handles[h].inode
        offset == SeekOffset(page_id)
        len == ByteLen(content[inode])
    IN  IF overflow_checks /\ SeekOverflows(page_id)
        THEN SeekPanic("read_page", d, page_id)
        ELSE IF offset + PageSize <= len
        THEN /\ handles' = [handles EXCEPT ![h].cursor = offset + PageSize]
             /\ fres' = [op |-> "read_page", dbfile |-> d, page_id |-> page_id, out |-> "Ok",
                         frame |-> Slice(content[inode], offset, PageSize)]
             /\ UNCHANGED <<disk, content, files, opened, written, status>>
        ELSE /\ handles' = [handles EXCEPT ![h].cursor = IF offset < len THEN len ELSE offset]
             /\ fres' = [op |-> "read_page", dbfile |-> d, page_id |-> page_id,
                         out |-> "UnexpectedEof", frame |-> <<>>]
             /\ UNCHANGED <<disk, content, files, opened, written, status>>

\* DbFile::write_page: seek, then write_all(&data), then sync_all when
\* forced_sync is set (no effect on what a read returns).
write_page(d, page_id, data) ==
    LET h == dbfiles[d].file
        inode == handles[h].inode
        offset == SeekOffset(page_id)
    IN  IF overflow_checks /\ SeekOverflows(page_id)
        THEN SeekPanic("write_page", d, page_id)
        ELSE /\ content' = [content EXCEPT ![inode] = WriteAt(@, offset, data)]
             /\ handles' = [handles EXCEPT ![h].cursor = offset + ByteLen(data)]
             /\ written' = [p \in (DOMAIN written) \cup {page_id} |->
                               IF p = page_id THEN data ELSE written[p]]
             /\ fres' = [op |-> "write_page", dbfile |-> d, page_id |-> page_id, out |-> "Ok",
                         frame |-> <<>>]
             /\ UNCHANGED <<disk, files, opened, status>>

\* One empty file, opened once; every DbFile instance holds that handle.
InitIO ==
    /\ NewPage
    /\ overflow_checks \in BOOLEAN
    /\ disk = (<<"d", "/", "n", ".", "b", "d">> :> 1)
    /\ content = <<<<>>>>
    /\ handles = <<[inode |-> 1, cursor |-> 0]>>
    /\ files = (<<"d", ":", "n">> :> 1)
    /\ opened = {[path |-> <<"d">>, name |-> <<"n">>, handle |-> 1]}
    /\ written = <<>>
    /\ fres = [op |-> "none"]

ReadPage ==
    \E d \in DOMAIN dbfiles, page_id \in PageIds :
        /\ status = "ok"
        /\ read_page(d, page_id)
        /\ UNCHANGED <<pageVars, overflow_checks, res, step>>

\* The page ids whose byte offset fits u64.
PageIdsInRange == {page_id \in PageIds : ~SeekOverflows(page_id)}

\* write_page of a page in range, with a buffer of any length.
WritePage ==
    \E d \in DOMAIN dbfiles, page_id \in PageIdsInRange, len \in DataLens, b \in DataBytes :
        /\ status = "ok"
        /\ write_page(d, page_id, Buffer(len, b))
        /\ UNCHANGED <<pageVars, overflow_checks, res, step>>

NextIO == ReadPage \/ WritePage

SpecIO == InitIO /\ [][NextIO]_vars

\* write_page with a buffer of exactly one page.
WriteWholePage ==
    \E d \in DOMAIN dbfiles, page_id \in PageIds, b \in DataBytes :
        /\ status = "ok"
        /\ write_page(d, page_id, Buffer(PageSize, b))
        /\ UNCHANGED <<pageVars, overflow_checks, res, step>>

NextWholePages == ReadPage \/ WriteWholePage

SpecWholePages == InitIO /\ [][NextWholePages]_vars

\* The bytes that lie in page q of a file.
PageBytes(bytes, q) == Slice(bytes, DBHeaderSize + q * PageSize, PageSize)

\* The page numbers whose byte ranges the model's writes can reach.
PageNumbers == 0..(MaxPage + 1)

\* C11: a successful write_page(p, data) writes exactly PageSize bytes at
\* byte offset DBHeaderSize + p * PageSize, for every data buffer: page p
\* holds one page of the data's bytes afterwards, and the bytes every other
\* page q # p held before the call are the same after it.
C11_WritePageFrame ==
    [][(fres'.op = "write_page" /\ fres'.out = "Ok" /\ ~SeekOverflows(fres'.page_id)) =>
          LET p == fres'.page_id.lo
              inode == handles[dbfiles[fres'.dbfile].file].inode
          IN  /\ ByteLen(PageBytes(content'[inode], p)) = PageSize
              /\ PageBytes(content'[inode], p) = Slice(written'[fres'.page_id], 0, PageSize)
              /\ \A q \in PageNumbers \ {p} :
                     Take(PageBytes(content'[inode], q), ByteLen(PageBytes(content[inode], q)))
                         = PageBytes(content[inode], q)]_vars

\* C12: with every written buffer exactly one page long, read_page(p) returns
\* exactly the bytes of the most recent successful write_page(p, .), whichever
\* instance made either call and wherever the calls in between left the cursor.
C12_ReadAfterWrite ==
    (fres.op = "read_page" /\ fres.page_id \in DOMAIN written) =>
        fres.out = "Ok" /\ fres.frame = written[fres.page_id]

----------------------------------------------------------------------------
(* FileManager: create, delete, open *)

\* const DB_EXTENTION: &'static str = "bd"
DB_EXTENTION == <<"b", "d">>

\* The directories (path: &Path), one string unit per element; "xFE" and
\* "xFF" are single bytes that are not valid UTF-8.
DirSeq == <<  <<"a">>, <<"a", ":", "b">>, <<"xFE">>, <<"xFF">>  >>

\* The database names (name: &str).
NameSeq == <<  <<"c">>, <<"b", ":", "c">>  >>

Dirs == {DirSeq[i] : i \in DOMAIN DirSeq}

Names == {NameSeq[i] : i \in DOMAIN NameSeq}

InvalidUnits == {"xFE", "xFF"}

\* path.display(): what is not valid UTF-8 is shown as U+FFFD.
Display(path) == [i \in DOMAIN path |-> IF path[i] \in InvalidUnits THEN "uFFFD" ELSE path[i]]

\* format!("{}.{}", name, DB_EXTENTION)
FileName(name) == name \o <<".">> \o DB_EXTENTION

\* path.join(file), for a relative file name.
Join(path, file) == path \o <<"/">> \o file

\* let file_path = path.join(format!("{}.{}", name, DB_EXTENTION))
FilePath(path, name) == Join(path, FileName(name))

\* let key = format!("{}:{}", path.display(), name)
CacheKey(path, name) == Display(path) \o <<":">> \o name

\* OpenOptions::open: creating needs write access; create_new fails on a
\* file that is present; without it the file has to be there.
OpenOptionsOpen(opts, file_path) ==
    IF opts.create_new /\ ~opts.write THEN [out |-> "InvalidInput", created |-> FALSE]
    ELSE IF opts.create_new
         THEN IF file_path \in DOMAIN disk
              THEN [out |-> "AlreadyExists", created |-> FALSE]
              ELSE [out |-> "Ok", created |-> TRUE]
    ELSE IF ~(opts.read \/ opts.write) THEN [out |-> "InvalidInput", created |-> FALSE]
    ELSE IF file_path \notin DOMAIN disk THEN [out |-> "NotFound", created |-> FALSE]
    ELSE [out |-> "Ok", created |-> FALSE]

\* What a call on the FileManager returned: the outcome and, from open, the handle.
FileResult(op, out, handle) == [op |-> op, out |-> out, handle |-> handle]

\* FileManager::create: the outcome of the open is dropped and Ok(()) returned.
create(path, name) ==
    LET file_path == FilePath(path, name)
        opened_file == OpenOptionsOpen([read |-> FALSE, write |-> FALSE, create_new |-> TRUE],
                                       file_path)
    IN  /\ IF opened_file.created
           THEN /\ disk' = [p \in (DOMAIN disk) \cup {file_path} |->
                               IF p = file_path THEN Len(content) + 1 ELSE disk[p]]
                /\ content' = Append(content, <<>>)
           ELSE UNCHANGED <<disk, content>>
        /\ fres' = FileResult("create", "Ok", 0)
        /\ UNCHANGED <<handles, files, opened, written, status>>

\* FileManager::delete: fs::remove_file.
delete(path, name) ==
    LET file_path == FilePath(path, name)
    IN  IF file_path \in DOMAIN disk
        THEN /\ disk' = [p \in (DOMAIN disk) \ {file_path} |-> disk[p]]
             /\ fres' = FileResult("delete", "Ok", 0)
             /\ UNCHANGED <<content, handles, files, opened, written, status>>
        ELSE /\ fres' = FileResult("delete", "NotFound", 0)
             /\ UNCHANGED <<disk, content, handles, files, opened, written, status>>

\* FileManager::open: the handle cached under the key, else the file is
\* opened for reading and writing and its handle cached.
open(path, name) ==
    LET key == CacheKey(path, name)
        file_path == FilePath(path, name)
        file == OpenOptionsOpen([read |-> TRUE, write |-> TRUE, create_new |-> FALSE], file_path)
        file_rc == Len(handles) + 1
    IN  IF key \in DOMAIN files
        THEN /\ fres' = FileResult("open", "Ok", files[key])
             /\ opened' = opened \cup {[path |-> path, name |-> name, handle |-> files[key]]}
             /\ UNCHANGED <<disk, content, handles, files, written, status>>
        ELSE IF file.out # "Ok"
        THEN /\ fres' = FileResult("open", file.out, 0)
             /\ UNCHANGED <<disk, content, handles, files, opened, written, status>>
        ELSE /\ handles' = Append(handles, [inode |-> disk[file_path], cursor |-> 0])
             /\ files' = [k \in (DOMAIN files) \cup {key} |-> IF k = key THEN file_rc ELSE files[k]]
             /\ fres' = FileResult("open", "Ok", file_rc)
             /\ opened' = opened \cup {[path |-> path, name |-> name, handle |-> file_rc]}
             /\ UNCHANGED <<disk, content, written, status>>

\* At most MaxHandles files are opened.
MaxHandles == 2

\* The file of DirSeq[i] and NameSeq[j] has the inode (i - 1) * Len(NameSeq) + j.
InodeOf(file_path) ==
    CHOOSE k \in 1..(Len(DirSeq) * Len(NameSeq)) :
        file_path = FilePath(DirSeq[((k - 1) \div Len(NameSeq)) + 1],
                             NameSeq[((k - 1) % Len(NameSeq)) + 1])

\* A fresh FileManager; every directory holds an empty file for every name.
InitRegistry ==
    /\ NewPage
    /\ overflow_checks \in BOOLEAN
    /\ disk = [file_path \in {FilePath(path, name) : path \in Dirs, name \in Names} |->
                  InodeOf(file_path)]
    /\ content = [k \in 1..(Len(DirSeq) * Len(NameSeq)) |-> <<>>]
    /\ handles = <<>>
    /\ files = <<>>
    /\ opened = {}
    /\ written = <<>>
    /\ fres = [op |-> "none"]

Create ==
    \E path \in Dirs, name \in Names :
        /\ create(path, name)
        /\ UNCHANGED <<pageVars, overflow_checks, res, step>>

Delete ==
    \E path \in Dirs, name \in Names :
        /\ delete(path, name)
        /\ UNCHANGED <<pageVars, overflow_checks, res, step>>

Open ==
    \E path \in Dirs, name \in Names :
        /\ CacheKey(path, name) \in DOMAIN files \/ Len(handles) < MaxHandles
        /\ open(path, name)
        /\ UNCHANGED <<pageVars, overflow_checks, res, step>>

NextRegistry == Create \/ Delete \/ Open

SpecRegistry == InitRegistry /\ [][NextRegistry]_vars

\* The file of (path, name) is present.
Present(path, name) == FilePath(path, name) \in DOMAIN disk

\* C13: create fails with AlreadyExists when the file is present, and returns
\* success only when it created the file.
C13_CreateReportsFailure ==
    [][\A path \in Dirs, name \in Names :
          (fres'.op = "create" /\ create(path, name)) =>
              /\ Present(path, name) => fres'.out = "AlreadyExists"
              /\ fres'.out = "Ok" => ~Present(path, name) /\ Present(path, name)']_vars

\* C14: after create returns success for a pair that had no file, the file
\* path/name.bd is present and empty, so an open that follows finds it.
C14_CreateMakesFile ==
    [][\A path \in Dirs, name \in Names :
          (fres'.op = "create" /\ create(path, name)
           /\ ~Present(path, name) /\ fres'.out = "Ok") =>
              /\ Present(path, name)'
              /\ content'[disk'[FilePath(path, name)]] = <<>>]_vars

\* C15: within one FileManager every successful open of the same (directory,
\* name) returns the same handle, whatever happened in between, and opens of
\* the same name in two different directories return two different handles
\* on two different files.
C15_OneHandlePerPair ==
    \A first \in opened, second \in opened :
        /\ (first.path = second.path /\ first.name = second.name) =>
               first.handle = second.handle
        /\ (first.path # second.path /\ first.name = second.name) =>
               /\ first.handle # second.handle
               /\ handles[first.handle].inode # handles[second.handle].inode

\* C16: an open issued while no file is present for (directory, name) fails
\* with NotFound and returns no handle, also after open and delete.
C16_OpenOfMissingFile ==
    [][\A path \in Dirs, name \in Names :
          (fres'.op = "open" /\ open(path, name) /\ ~Present(path, name)) =>
              fres'.out = "NotFound" /\ fres'.handle = 0]_vars

\* C20: two successful opens get the same handle if and only if they name
\* the same database file: the cache key tells any two (directory, name)
\* pairs apart.
C20_KeyIsOneToOne ==
    \A first \in opened, second \in opened :
        first.handle = second.handle <=>
            FilePath(first.path, first.name) = FilePath(second.path, second.name)

====
